---- MODULE Spec2Model ----
(***************************************************************************)
(* PromptLens (src/app.js): the saliency pipeline of runAnalysis.          *)
(*                                                                         *)
(* Strings are sequences of one-character strings, so that the scanning,   *)
(* trimming and joining of the code are computed and not assumed.          *)
(* A run of runAnalysis is a frame: the locals of one invocation and the   *)
(* callLLM promise it is suspended on.  The page's globals                 *)
(* (selectedMethod, selectedProvider, analysisTarget, localStorage, the    *)
(* Run button) are shared by all frames.                                   *)
(***************************************************************************)
EXTENDS Integers, Sequences, FiniteSets, TLC

\* ------------------------------------------------------------------------
\* Bounds of the model
\* ------------------------------------------------------------------------

\* The prompt textarea holds a text of 0..MaxPhrases short sentences.
MaxPhrases == 2

\* Number of runAnalysis invocations that may be suspended at the same time.
MaxRuns == 2

\* Where invocations overlap, the textarea holds 0..MaxOverlapPhrases sentences.
MaxOverlapPhrases == 1

\* cosineSim is applied to the texts of at most MaxSimLen characters.
MaxSimLen == 5

\* ------------------------------------------------------------------------
\* Characters and strings
\* ------------------------------------------------------------------------

\* [.!?\n] of sentRe
IsTerm(c) == c \in {".", "!", "?", "\n"}

\* [,;] of the sub-split
IsCut(c) == c \in {",", ";"}

\* the white space String.prototype.trim removes
IsWs(c) == c \in {" ", "\n", "\t"}

\* the least element of a non-empty set of positions
minOf(S) == CHOOSE k \in S : \A j \in S : k <= j

\* the greatest element of a non-empty set of positions
maxOf(S) == CHOOSE k \in S : \A j \in S : k >= j

TrimLeft(s) ==
  LET inked == {k \in 1..Len(s) : ~IsWs(s[k])}
  IN  IF inked = {} THEN <<>> ELSE SubSeq(s, minOf(inked), Len(s))

TrimRight(s) ==
  LET inked == {k \in 1..Len(s) : ~IsWs(s[k])}
  IN  IF inked = {} THEN <<>> ELSE SubSeq(s, 1, maxOf(inked))

\* String.prototype.trim
trim(s) == TrimRight(TrimLeft(s))

\* Array.prototype.join('')
RECURSIVE join(_)
join(ss) == IF ss = <<>> THEN <<>> ELSE Head(ss) \o join(Tail(ss))

\* ------------------------------------------------------------------------
\* tokenizePhrases
\* ------------------------------------------------------------------------

SentenceLimit == 60
ChunkMin == 35

\* number of characters from position p (1-based) on that are no terminators
NonTermRun(s, p) ==
  LET stops == {k \in p..Len(s) : IsTerm(s[k])}
  IN  IF stops = {} THEN Len(s) - p + 1 ELSE minOf(stops) - p

\* number of characters from position p on that are terminators
TermRun(s, p) ==
  LET stops == {k \in p..Len(s) : ~IsTerm(s[k])}
  IN  IF stops = {} THEN Len(s) - p + 1 ELSE minOf(stops) - p

\* The successive matches of sentRe = /([^.!?\n]+[.!?\n]+)|([^.!?\n]+$)/g from
\* lastIndex p: a match starts at the first non-terminator at or after p and
\* takes the run of non-terminators and the run of terminators after it (the
\* second alternative: the run reaches the end of the text).  Terminators
\* standing at p belong to no match.
RECURSIVE sentReMatches(_, _)
sentReMatches(text, p) ==
  IF p > Len(text) THEN <<>>
  ELSE IF IsTerm(text[p]) THEN sentReMatches(text, p + 1)
  ELSE LET n == NonTermRun(text, p)
           t == TermRun(text, p + n)
       IN  <<SubSeq(text, p, p + n + t - 1)>> \o sentReMatches(text, p + n + t)

\* the pieces of s from position p on, each ending after a cut character
RECURSIVE splitFrom(_, _)
splitFrom(s, p) ==
  LET cuts == {k \in p..(Len(s) - 1) : IsCut(s[k])}
  IN  IF cuts = {} THEN <<SubSeq(s, p, Len(s))>>
      ELSE <<SubSeq(s, p, minOf(cuts))>> \o splitFrom(s, minOf(cuts) + 1)

\* s.split(/(?<=[,;])/): cut after every comma or semicolon that is not the
\* last character
splitAfterCut(s) == splitFrom(s, 1)

\* a loop that pushes after every part
flushes_always(acc, isLast) == TRUE

\* acc.trim().length >= 35 || isLast
flushes(acc, isLast) == Len(trim(acc)) >= ChunkMin \/ isLast

\* the accumulation loop over parts (lines 273-282); i is 1-based
RECURSIVE accumulate(_, _, _)
accumulate(parts, i, acc) ==
  IF i > Len(parts) THEN (IF trim(acc) # <<>> THEN <<acc>> ELSE <<>>)
  ELSE LET acc2 == acc \o parts[i]
           isLast == i = Len(parts)
       IN  IF flushes(acc2, isLast)
           THEN (IF trim(acc2) # <<>> THEN <<acc2>> ELSE <<>>)
                \o accumulate(parts, i + 1, <<>>)
           ELSE accumulate(parts, i + 1, acc2)

\* a loop body that sub-splits a match of any length
pushSentence_alwaysSplit(s) ==
  IF trim(s) = <<>> THEN <<>> ELSE accumulate(splitAfterCut(s), 1, <<>>)

\* a loop body that sub-splits a match longer than the least chunk
pushSentence_chunkLimit(s) ==
  IF trim(s) = <<>> THEN <<>>
  ELSE IF Len(s) > ChunkMin
       THEN accumulate(splitAfterCut(s), 1, <<>>)
       ELSE <<s>>

\* a loop body that does not skip a blank match
pushSentence_noSkip(s) ==
  IF Len(s) > SentenceLimit
  THEN accumulate(splitAfterCut(s), 1, <<>>)
  ELSE <<s>>

\* the body of the while loop for one match s (lines 267-285)
pushSentence(s) ==
  IF trim(s) = <<>> THEN <<>>
  ELSE IF Len(s) > SentenceLimit
       THEN accumulate(splitAfterCut(s), 1, <<>>)
       ELSE <<s>>

RECURSIVE pushAll(_)
pushAll(ms) == IF ms = <<>> THEN <<>> ELSE pushSentence(Head(ms)) \o pushAll(Tail(ms))

tokenizePhrases(text) ==
  LET sentences == pushAll(sentReMatches(text, 1))
  IN  IF Len(sentences) > 0 THEN sentences ELSE <<text>>

\* ------------------------------------------------------------------------
\* Natural numbers of any size: little-endian sequences of limbs in
\* 0..Base-1 without leading zero limbs; zero is <<>>
\* ------------------------------------------------------------------------

LimbBits == 13
Base == 2 ^ LimbBits

\* the element of a one-element set: Only({e : v \in {d}}) is e with v
\* standing for the value of d
Only(S) == CHOOSE v \in S : TRUE

limb(a, k) == IF k <= Len(a) THEN a[k] ELSE 0

nNorm(a) ==
  Only({ IF \A k \in 1..Len(s) : s[k] = 0 THEN <<>>
         ELSE SubSeq(s, 1, maxOf({k \in 1..Len(s) : s[k] # 0})) : s \in {a} })

RECURSIVE nFromInt(_)
nFromInt(n) == IF n = 0 THEN <<>> ELSE <<n % Base>> \o nFromInt(n \div Base)

nToInt(a) ==
  Only({ limb(s, 1) + limb(s, 2) * Base + limb(s, 3) * Base * Base : s \in {a} })

nCmp(a, b) ==
  Only({ IF Len(s) # Len(t) THEN (IF Len(s) < Len(t) THEN -1 ELSE 1)
         ELSE IF s = t THEN 0
         ELSE Only({ IF s[k] < t[k] THEN -1 ELSE 1 :
                     k \in {maxOf({j \in 1..Len(s) : s[j] # t[j]})} }) :
         s \in {a}, t \in {b} })

\* the carry into limb k of a + b
nCarry(a, b, k) ==
  \E j \in 1..(k - 1) :
     /\ limb(a, j) + limb(b, j) >= Base
     /\ \A i \in (j + 1)..(k - 1) : limb(a, i) + limb(b, i) = Base - 1

nAdd(a, b) ==
  Only({ nNorm([k \in 1..((IF Len(s) > Len(t) THEN Len(s) ELSE Len(t)) + 1) |->
                  (limb(s, k) + limb(t, k) + (IF nCarry(s, t, k) THEN 1 ELSE 0)) % Base]) :
         s \in {a}, t \in {b} })

\* the borrow out of the limbs below k in a - b
nBorrow(a, b, k) ==
  \E j \in 1..(k - 1) :
     /\ limb(a, j) < limb(b, j)
     /\ \A i \in (j + 1)..(k - 1) : limb(a, i) = limb(b, i)

\* a - b for a >= b
nSub(a, b) ==
  Only({ nNorm([k \in 1..Len(s) |->
                  (s[k] - limb(t, k) - (IF nBorrow(s, t, k) THEN 1 ELSE 0) + Base) % Base]) :
         s \in {a}, t \in {b} })

nShiftLimbs(a, n) ==
  Only({ IF s = <<>> THEN <<>> ELSE [k \in 1..n |-> 0] \o s : s \in {a} })

\* a * d for a small factor d (at most Base)
nMulSmall(a, d) ==
  Only({ IF f = 0 \/ s = <<>> THEN <<>>
         ELSE nAdd([k \in 1..Len(s) |-> (s[k] * f) % Base],
                   <<0>> \o [k \in 1..Len(s) |-> (s[k] * f) \div Base]) :
         s \in {a}, f \in {d} })

RECURSIVE nMulFrom(_, _, _)
nMulFrom(a, b, j) ==
  IF j > Len(b) THEN <<>>
  ELSE Only({ IF rest = <<>> THEN part ELSE nAdd(part, rest) :
              rest \in {nMulFrom(a, b, j + 1)},
              part \in {nShiftLimbs(nMulSmall(a, b[j]), j - 1)} })

nMul(a, b) == Only({ nMulFrom(s, t, 1) : s \in {a}, t \in {b} })

nShl(a, bits) ==
  Only({ nShiftLimbs(nMulSmall(a, 2 ^ (n % LimbBits)), n \div LimbBits) : n \in {bits} })

nShr(a, bits) ==
  Only({ IF q >= Len(t) THEN <<>>
         ELSE nNorm([k \in 1..(Len(t) - q) |->
                 (t[k + q] \div (2 ^ s))
                 + (limb(t, k + q + 1) % (2 ^ s)) * (2 ^ (LimbBits - s))]) :
         t \in {a}, q \in {bits \div LimbBits}, s \in {bits % LimbBits} })

nBitLen(a) ==
  Only({ IF s = <<>> THEN 0
         ELSE (Len(s) - 1) * LimbBits
              + (CHOOSE k \in 1..LimbBits : 2 ^ (k - 1) <= s[Len(s)] /\ s[Len(s)] < 2 ^ k) :
         s \in {a} })

nIsOdd(a) == Only({ s # <<>> /\ s[1] % 2 = 1 : s \in {a} })

\* one quotient digit: the q with q * D <= R < (q + 1) * D, for R < D * Base,
\* found near the quotient of the leading bits of R and D
EstBits == 15
nDigit(R, D) ==
  IF nCmp(R, D) < 0 THEN 0
  ELSE Only({ Only({ CHOOSE q \in (Rt \div (Dt + 1))..
                                  (IF (Rt + 1) \div Dt < Base - 1
                                   THEN (Rt + 1) \div Dt ELSE Base - 1) :
                        /\ nCmp(nMulSmall(D, q), R) <= 0
                        /\ nCmp(nMulSmall(D, q + 1), R) > 0 :
                     Dt \in {nToInt(nShr(D, t))}, Rt \in {nToInt(nShr(R, t))} }) :
              t \in {Only({ IF len > EstBits THEN len - EstBits ELSE 0 :
                            len \in {nBitLen(D)} })} })

\* long division of N by D # 0, from the top limb of N down; the limbs
\* of N above position k are already in the remainder R; the quotient's
\* digits come out most significant first
RECURSIVE nDivFrom(_, _, _, _)
nDivFrom(N, D, k, R) ==
  IF k = 0 THEN <<>>
  ELSE Only({ Only({ <<dg>> \o nDivFrom(N, D, k - 1, nSub(R1, nMulSmall(D, dg))) :
                     dg \in {nDigit(R1, D)} }) :
              R1 \in {nNorm(<<N[k]>> \o R)} })

nDiv(N, D) ==
  Only({ Only({ Only({ nNorm([i \in 1..k |-> qs[k - i + 1]]) :
                       qs \in {nDivFrom(n, d, k, SubSeq(n, k + 1, Len(n)))} }) :
                k \in {IF Len(n) < Len(d) THEN 0 ELSE Len(n) - Len(d) + 1} }) :
         n \in {N}, d \in {D} })

\* floor of the square root, by Newton's iteration from a start above it
RECURSIVE nSqrtFrom(_, _)
nSqrtFrom(N, x) ==
  Only({ IF nCmp(y, x) >= 0 THEN x ELSE nSqrtFrom(N, y) :
         y \in {nShr(nAdd(x, nDiv(N, x)), 1)} })

SqrtEstBits == 26
nSqrt(N) ==
  IF N = <<>> THEN <<>>
  ELSE Only({ Only({ nSqrtFrom(N, nShl(nFromInt(est + 1), t \div 2)) :
                     est \in {Only({ CHOOSE r \in 0..(2 ^ (SqrtEstBits \div 2)) :
                                        r * r <= v /\ v < (r + 1) * (r + 1) :
                                     v \in {nToInt(nShr(N, t))} })} }) :
              t \in {Only({ IF len <= SqrtEstBits THEN 0
                            ELSE 2 * ((len - SqrtEstBits + 1) \div 2) :
                            len \in {nBitLen(N)} })} })

\* ------------------------------------------------------------------------
\* Numbers: the Number of JavaScript, IEEE 754 binary64 with rounding to
\* nearest, ties to even.  A number is (-1)^neg * m * 2^e with a mantissa m
\* of exactly MantBits bits, or zero (m = <<>>).  The values of the
\* pipeline stay far from the overflow and underflow thresholds, which are
\* not represented.
\* ------------------------------------------------------------------------

\* bits of the mantissa of a Number
MantBits == 53

\* digits computed beyond MantBits before a quotient or root is rounded
GuardBits == 3

Zero == [neg |-> FALSE, m |-> <<>>, e |-> 0]

\* M rounded to MantBits bits when it has sh bits more: the quotient q of M
\* by 2^sh goes up when the remainder is above half of 2^sh, or is half of
\* it and q is odd or something was left out of M (sticky)
roundOff(neg, M, e, sticky, sh) ==
  Only({ Only({ IF nBitLen(q1) > MantBits
                THEN [neg |-> neg, m |-> nShr(q1, 1), e |-> e + sh + 1]
                ELSE [neg |-> neg, m |-> q1, e |-> e + sh] :
                q1 \in {Only({ IF c > 0 \/ (c = 0 /\ (sticky \/ nIsOdd(q)))
                               THEN nAdd(q, <<1>>) ELSE q :
                               c \in {nCmp(nSub(M, nShl(q, sh)), nShl(<<1>>, sh - 1))} })} }) :
         q \in {nShr(M, sh)} })

\* the number nearest to M * 2^e, or to a little more than that (sticky)
round(neg, M, e, sticky) ==
  Only({ IF mant = <<>> THEN Zero
         ELSE Only({ IF len <= MantBits
                     THEN [neg |-> neg, m |-> nShl(mant, MantBits - len),
                           e |-> e - (MantBits - len)]
                     ELSE roundOff(neg, mant, e, sticky, len - MantBits) :
                     len \in {nBitLen(mant)} }) :
         mant \in {M} })

\* the number n, for an integer n >= 0
fromInt(n) == round(FALSE, nFromInt(n), 0, FALSE)

One == fromInt(1)

\* 0.5
Half == [One EXCEPT !.e = One.e - 1]

negD(x) == Only({ IF a.m = <<>> THEN a ELSE [a EXCEPT !.neg = ~a.neg] : a \in {x} })

\* a + b for a, b # 0 whose mantissas X, Y are aligned at the exponent e
addAligned(a, b, X, Y, e) ==
  IF a.neg = b.neg THEN round(a.neg, nAdd(X, Y), e, FALSE)
  ELSE Only({ IF c = 0 THEN Zero
              ELSE IF c > 0 THEN round(a.neg, nSub(X, Y), e, FALSE)
              ELSE round(b.neg, nSub(Y, X), e, FALSE) :
              c \in {nCmp(X, Y)} })

\* x + y
addD(x, y) ==
  Only({ IF a.m = <<>> THEN b
         ELSE IF b.m = <<>> THEN a
         ELSE Only({ Only({ addAligned(a, b, X, Y, e) :
                            X \in {nShl(a.m, a.e - e)}, Y \in {nShl(b.m, b.e - e)} }) :
                     e \in {IF a.e < b.e THEN a.e ELSE b.e} }) :
         a \in {x}, b \in {y} })

\* x - y
subD(x, y) == addD(x, negD(y))

\* x * y
fmul(x, y) ==
  Only({ IF a.m = <<>> \/ b.m = <<>> THEN Zero
         ELSE round(a.neg # b.neg, nMul(a.m, b.m), a.e + b.e, FALSE) :
         a \in {x}, b \in {y} })

\* x / y for y # 0
fdiv(x, y) ==
  Only({ IF a.m = <<>> THEN Zero
         ELSE Only({ Only({ round(a.neg # b.neg, Q, a.e - b.e - (MantBits + GuardBits),
                                  nMul(Q, b.m) # N) :
                            Q \in {nDiv(N, b.m)} }) :
                     N \in {nShl(a.m, MantBits + GuardBits)} }) :
         a \in {x}, b \in {y} })

\* Math.sqrt of the integer n >= 0
fsqrt(n) ==
  Only({ Only({ round(FALSE, R, -(MantBits + GuardBits), nMul(R, R) # N) :
                R \in {nSqrt(N)} }) :
         N \in {nShl(nFromInt(n), 2 * (MantBits + GuardBits))} })

\* x < y
ltD(x, y) == subD(x, y).neg

\* ------------------------------------------------------------------------
\* Similarity
\* ------------------------------------------------------------------------

\* String.prototype.toLowerCase on one character
toLowerCase(c) ==
  CASE c = "A" -> "a"
    [] c = "B" -> "b"
    [] c = "C" -> "c"
    [] c = "D" -> "d"
    [] c = "X" -> "x"
    [] OTHER -> c

lower(s) == [k \in 1..Len(s) |-> toLowerCase(s[k])]

NgramLen == 3

\* the keys of ngramFreq(text)
ngrams(text) ==
  {SubSeq(lower(text), k, k + NgramLen - 1) : k \in 1..(Len(text) - NgramLen + 1)}

\* ngramFreq(text)[g], 0 for an absent key (the || 0 of cosineSim)
ngramFreq(text, g) ==
  Cardinality({k \in 1..(Len(text) - NgramLen + 1) :
                 SubSeq(lower(text), k, k + NgramLen - 1) = g})

RECURSIVE sumOver(_, _, _, _)
sumOver(keys, a, b, which) ==
  IF keys = {} THEN 0
  ELSE LET k == CHOOSE x \in keys : TRUE
           ai == ngramFreq(a, k)
           bi == ngramFreq(b, k)
           term == CASE which = "dot" -> ai * bi
                     [] which = "na" -> ai * ai
                     [] OTHER -> bi * bi
       IN  term + sumOver(keys \ {k}, a, b, which)

\* greatest squared norm of the trigram vector of a text of MaxSimLen
\* characters
MaxNorm == (MaxSimLen - NgramLen + 1) * (MaxSimLen - NgramLen + 1)

\* Math.sqrt(n) for the norms up to MaxNorm, computed once
SqrtTable == [n \in 0..MaxNorm |-> fsqrt(n)]

sqrt(n) == Only({ IF v \in DOMAIN t THEN t[v] ELSE fsqrt(v) : v \in {n}, t \in {SqrtTable} })

\* a quotient that takes the norm of the first text twice
cosine_firstNorm(dot, na, nb) == fdiv(fromInt(dot), fmul(sqrt(na), sqrt(na)))

\* dot / (Math.sqrt(na) * Math.sqrt(nb))
cosine(dot, na, nb) == fdiv(fromInt(dot), fmul(sqrt(na), sqrt(nb)))

\* the products and norms up to MaxNorm (by Cauchy-Schwarz
\* dot * dot <= na * nb)
CosineArgs ==
  {u \in (0..MaxNorm) \X (1..MaxNorm) \X (1..MaxNorm) : u[1] * u[1] <= u[2] * u[3]}

\* cosine(dot, na, nb) for these, computed once
CosineTable == [t \in {u : u \in CosineArgs} |-> cosine(t[1], t[2], t[3])]

cosineSim(a, b) ==
  Only({ Only({ IF na = 0 \/ nb = 0 THEN Zero
                ELSE IF <<dot, na, nb>> \in DOMAIN t THEN t[<<dot, na, nb>>]
                ELSE cosine(dot, na, nb) :
                dot \in {sumOver(keys, a, b, "dot")},
                na \in {sumOver(keys, a, b, "na")},
                nb \in {sumOver(keys, a, b, "nb")},
                t \in {CosineTable} }) :
         keys \in {ngrams(a) \cup ngrams(b)} })


\* ------------------------------------------------------------------------
\* normalise
\* ------------------------------------------------------------------------

\* Math.min(...scores)
seqMin(scores) ==
  Only({ CHOOSE m \in {s[k] : k \in 1..Len(s)} : \A k \in 1..Len(s) : ~ltD(s[k], m) :
         s \in {scores} })

\* Math.max(...scores)
seqMax(scores) ==
  Only({ CHOOSE m \in {s[k] : k \in 1..Len(s)} : \A k \in 1..Len(s) : ~ltD(m, s[k]) :
         s \in {scores} })

\* a normalise that does not subtract the minimum from the score
normalise_noShift(scores) ==
  Only({ Only({ IF max = min THEN [k \in 1..Len(s) |-> Half]
                ELSE [k \in 1..Len(s) |-> fdiv(s[k], subD(max, min))] :
                min \in {seqMin(s)}, max \in {seqMax(s)} }) :
         s \in {scores} })

\* a normalise that maps equal scores to 0
normalise_zero(scores) ==
  Only({ Only({ IF max = min THEN [k \in 1..Len(s) |-> Zero]
                ELSE [k \in 1..Len(s) |-> fdiv(subD(s[k], min), subD(max, min))] :
                min \in {seqMin(s)}, max \in {seqMax(s)} }) :
         s \in {scores} })

\* function normalise(scores)
normalise(scores) ==
  Only({ Only({ IF max = min THEN [k \in 1..Len(s) |-> Half]
                ELSE [k \in 1..Len(s) |-> fdiv(subD(s[k], min), subD(max, min))] :
                min \in {seqMin(s)}, max \in {seqMax(s)} }) :
         s \in {scores} })

\* ------------------------------------------------------------------------
\* The page: globals, texts, the Model Oracle's answers
\* ------------------------------------------------------------------------

Methods == {"perturbation", "omission", "paraphrase"}

Providers == {"groq", "together"}

Targets == {"user", "system"}

RunIds == 1..MaxRuns

\* PROVIDERS[p].keyPrefix; the empty string stands for null
keyPrefix(p) == IF p = "groq" THEN <<"g", "s", "k", "_">> ELSE <<>>

\* String.prototype.startsWith
startsWith(s, prefix) ==
  Len(s) >= Len(prefix) /\ SubSeq(s, 1, Len(prefix)) = prefix

\* what the user may paste into the key input
KeyInputs == { <<>>, <<" ", "g", "s", "k", "_", "1">> }

\* a text of n sentences "a. ", "b. ", ...
Letters == <<"a", "b", "c", "d">>

RECURSIVE SentencesText(_)
SentencesText(n) ==
  IF n = 0 THEN <<>> ELSE SentencesText(n - 1) \o <<Letters[n], ".", " ">>

\* two sentences with a line between them that holds one space
BlankLineText == <<"a", ".", "\n", " ", "\n", "b", ".">>

\* values of the #prompt textarea
PromptTexts == {SentencesText(n) : n \in 0..MaxPhrases} \cup {BlankLineText}

\* values of the #prompt textarea where invocations overlap
OverlapTexts == {SentencesText(n) : n \in 0..MaxOverlapPhrases}

\* values of the #systemprompt textarea
SystemTexts == { <<"s", ".">> }

\* content the provider may answer the baseline request with
Baselines == { <<"a", "b", "c", "d">> }

\* contents the provider may answer a probe request with: the baseline's
\* content, or one that shares one of its two trigrams
Outputs == { <<"a", "b", "c", "d">>, <<"a", "b", "c", "x">> }

\* 1 - cosineSim(baseline, out) for the texts the provider returns here,
\* computed once
DivergenceTable ==
  [b \in Baselines, o \in Outputs \cup {<<>>} |-> subD(One, cosineSim(b, o))]

\* 1 - cosineSim(baseline, out), the score pushed on success
divergence(baseline, out) ==
  Only({ IF <<b, o>> \in DOMAIN t THEN t[b, o] ELSE subD(One, cosineSim(b, o)) :
         b \in {baseline}, o \in {out}, t \in {DivergenceTable} })

\* the scores a run can push here: 0 for a failed probe, else a divergence
ScoreValues == {Zero} \cup UNION {{t[p] : p \in DOMAIN t} : t \in {DivergenceTable}}

\* the score arrays of the runs here
ScoreArrays == UNION {[1..n -> ScoreValues] : n \in 1..MaxPhrases}

\* normalise(scores) for these, computed once
NormaliseTable == [scores \in {u : u \in ScoreArrays} |-> normalise(scores)]

\* the raw scores handed on as they are
normalised_raw(scores) == scores

\* normalise(scores), as runAnalysis calls it
normalised(scores) ==
  Only({ IF s \in DOMAIN t THEN t[s] ELSE normalise(s) : s \in {scores}, t \in {NormaliseTable} })

\* contents the provider may answer a rewrite request with
Rewrites == { <<>>, <<"i", "t">> }

\* '[...]'
Placeholder == <<"[", ".", ".", ".", "]">>

\* '[something]'
DefaultNeutral == <<"[", "s", "o", "m", "e", "t", "h", "i", "n", "g", "]">>

\* the fixed instruction of the rewrite request, one token for the literal
RewriteInstruction == <<"Rewrite the following phrase ...:\n">>

BaselineMaxTokens == 600
ProbeMaxTokens == 400
RewriteMaxTokens == 60

VARIABLES
  selectedMethod,    \* let selectedMethod
  selectedProvider,  \* let selectedProvider
  analysisTarget,    \* let analysisTarget
  storage,           \* localStorage[PROVIDERS[p].storageKey], <<>> when absent
  promptText,        \* #prompt .value
  systemText,        \* #systemprompt .value
  running,           \* #runBtn .disabled, set by setRunning
  frames,            \* the suspended invocations of runAnalysis
  last,              \* how the last step ended an invocation, if it did
  pure               \* a pure function applied to an input, and its result

page == <<selectedMethod, selectedProvider, analysisTarget, storage,
          promptText, systemText, running, frames, last>>

vars == <<selectedMethod, selectedProvider, analysisTarget, storage,
          promptText, systemText, running, frames, last, pure>>

NoCall == [userMsg |-> <<>>, systemMsg |-> <<>>, maxTokens |-> 0, sent |-> FALSE,
           provider |-> "groq", key |-> <<>>]

\* a free slot: no invocation of runAnalysis lives in it
\* (startMethod is a history field: the value of selectedMethod when the
\* invocation began, kept until the invocation picks its saliency function)
Idle == [pc |-> "idle", analyzingUser |-> TRUE, primaryText |-> <<>>,
         contextText |-> <<>>, phrases |-> <<>>, baselineOk |-> FALSE,
         baseline |-> <<>>, method |-> "perturbation", i |-> 0, scores |-> <<>>,
         outcomes |-> <<>>, neutral |-> <<>>, side |-> "none", calls |-> 0,
         ticks |-> <<>>, call |-> NoCall, startMethod |-> "perturbation"]

NoEvent == [kind |-> "none"]

NoPure == [op |-> "none"]

\* getKey()
getKey == storage[selectedProvider]

\* callLLM up to its first await: the provider and key are read now and go
\* into the request; without a key it throws before any request is sent
callLLM(userMsg, systemMsg, maxTokens) ==
  [userMsg |-> userMsg, systemMsg |-> systemMsg, maxTokens |-> maxTokens,
   sent |-> getKey # <<>>, provider |-> selectedProvider, key |-> getKey]

\* a buildCall that reads the global analysisTarget at each call
buildCall_global(f, analyzedText) ==
  [userMsg   |-> IF analysisTarget = "user" THEN analyzedText ELSE f.contextText,
   systemMsg |-> IF analysisTarget = "user" THEN f.contextText ELSE analyzedText]

\* buildCall of runAnalysis, closed over analyzingUser and contextText
buildCall(f, analyzedText) ==
  [userMsg   |-> IF f.analyzingUser THEN analyzedText ELSE f.contextText,
   systemMsg |-> IF f.analyzingUser THEN f.contextText ELSE analyzedText]

\* perturbedCall of runAnalysis
perturbedCall(f, perturbedText) ==
  LET c == buildCall(f, perturbedText)
  IN  callLLM(c.userMsg, c.systemMsg, ProbeMaxTokens)

\* phrases.map((p, j) => (j === i ? repl : p)).join(''), i 0-based
replacePhrase(phrases, i, repl) ==
  join([j \in 1..Len(phrases) |-> IF j = i + 1 THEN repl ELSE phrases[j]])

\* phrases.filter((_, j) => j !== i), i 0-based
filterOut(phrases, i) ==
  [j \in 1..(Len(phrases) - 1) |-> IF j <= i THEN phrases[j] ELSE phrases[j + 1]]

\* saliencyPerturbation: the text of probe i
perturbed(phrases, i) == replacePhrase(phrases, i, Placeholder)

\* an omission that leaves an empty join as it is
omitted_noSpace(phrases, i) == join(filterOut(phrases, i))

\* saliencyOmission: the text of probe i
omitted(phrases, i) ==
  LET o == join(filterOut(phrases, i))
  IN  IF o = <<>> THEN <<" ">> ELSE o

\* saliencyParaphrase: the text of probe i
paraphrased(phrases, i, neutral) == replacePhrase(phrases, i, neutral)

\* the text of the probe the frame sends for its phrase i
probeText(f) ==
  CASE f.method = "perturbation" -> perturbed(f.phrases, f.i)
    [] f.method = "omission" -> omitted(f.phrases, f.i)
    [] OTHER -> paraphrased(f.phrases, f.i, f.neutral)

\* the rewrite request of saliencyParaphrase for phrase i
rewriteCall(f) ==
  callLLM(RewriteInstruction \o f.phrases[f.i + 1], <<>>, RewriteMaxTokens)

\* a loop that stops after its first phrase
loopContinues_first(f) == f.i < 1

\* the condition of the for loops of the saliency functions
loopContinues(f) == f.i < Len(f.phrases)

\* a Paraphrase loop that sends no rewrite request
needsRewrite_never(f) == FALSE

\* only saliencyParaphrase sends a rewrite request before the probe
needsRewrite(f) == f.method = "paraphrase"

\* neutral after the try/catch around the rewrite request
neutralOf(f, ok, content) == IF ok THEN content ELSE f.neutral

\* a failed probe scored as the greatest divergence
scoreOf_failOne(f, ok, content) ==
  IF ok THEN divergence(f.baseline, content) ELSE One

\* a failed rewrite request scores the phrase 0 whatever the probe returns
scoreOf_sideFailZero(f, ok, content) ==
  IF ok /\ f.side # "fail" THEN divergence(f.baseline, content) ELSE Zero

\* the score pushed by the try/catch around the probe
scoreOf(f, ok, content) == IF ok THEN divergence(f.baseline, content) ELSE Zero

\* a progress event that reports the index of the phrase
onTick_index(f) == <<f.i, Len(f.phrases)>>

\* onTick(i + 1, phrases.length) at the end of the loop body
onTick(f) == <<f.i + 1, Len(f.phrases)>>

\* scores = [x] in place of scores.push
push_only(scores, x) == <<x>>

\* scores.unshift in place of scores.push
push_front(scores, x) == <<x>> \o scores

\* scores.push(x)
push(scores, x) == Append(scores, x)

\* no rejection reaches the catch of runAnalysis
fatal_never(f, ok) == FALSE

\* every rejection reaches the catch of runAnalysis
fatal_any(f, ok) == ~ok

\* the await of the baseline stands in no try of its own: its rejection
\* reaches the catch of runAnalysis; every other await has its own catch
fatal(f, ok) == f.pc = "baseline" /\ ~ok

\* the page after load, with a text typed in #prompt
InitWith(texts) ==
  /\ selectedMethod = "perturbation"
  /\ selectedProvider = "groq"
  /\ analysisTarget = "user"
  /\ storage = [p \in Providers |-> <<>>]
  /\ promptText \in texts
  /\ systemText \in SystemTexts
  /\ running = FALSE
  /\ frames = [r \in RunIds |-> Idle]
  /\ last = NoEvent
  /\ pure = NoPure

Init == InitWith(PromptTexts)

InitOverlap == InitWith(OverlapTexts)

\* A rejected callLLM promise is consumed by its awaiter before the browser
\* handles another event: user events and network answers wait for it.
MicrotaskPending ==
  \E r \in RunIds : frames[r].pc # "idle" /\ ~frames[r].call.sent

selectMethod(m) ==
  /\ ~MicrotaskPending
  /\ selectedMethod' = m
  /\ last' = NoEvent
  /\ UNCHANGED <<selectedProvider, analysisTarget, storage, promptText,
                 systemText, running, frames, pure>>

selectTarget(t) ==
  /\ ~MicrotaskPending
  /\ analysisTarget' = t
  /\ last' = NoEvent
  /\ UNCHANGED <<selectedMethod, selectedProvider, storage, promptText,
                 systemText, running, frames, pure>>

selectProviderTab(p) ==
  /\ ~MicrotaskPending
  /\ selectedProvider' = p
  /\ last' = NoEvent
  /\ UNCHANGED <<selectedMethod, analysisTarget, storage, promptText,
                 systemText, running, frames, pure>>

saveKey(input) ==
  LET val == trim(input)
      prefix == keyPrefix(selectedProvider)
  IN  /\ ~MicrotaskPending
      /\ storage' = IF val = <<>> \/ (prefix # <<>> /\ ~startsWith(val, prefix))
                    THEN storage
                    ELSE [storage EXCEPT ![selectedProvider] = val]
      /\ last' = NoEvent
      /\ UNCHANGED <<selectedMethod, selectedProvider, analysisTarget,
                     promptText, systemText, running, frames, pure>>

clearKey ==
  /\ ~MicrotaskPending
  /\ storage' = [storage EXCEPT ![selectedProvider] = <<>>]
  /\ last' = NoEvent
  /\ UNCHANGED <<selectedMethod, selectedProvider, analysisTarget,
                 promptText, systemText, running, frames, pure>>

\* early returns that do not look at the primary text
earlyReturn_keyOnly(primaryText) == IF getKey = <<>> THEN "nokey" ELSE "none"

\* the early returns of runAnalysis: without a key it opens the key modal,
\* else without a primary text it shows an error
earlyReturn(primaryText) ==
  IF getKey = <<>> THEN "nokey"
  ELSE IF primaryText = <<>> THEN "notext"
  ELSE "none"

\* runAnalysis up to its first await, in the free slot r
runAnalysis(r) ==
  LET userText == trim(promptText)
      sysText == trim(systemText)
      analyzingUser == analysisTarget = "user"
      primaryText == IF analyzingUser THEN userText ELSE sysText
      contextText == IF analyzingUser THEN sysText ELSE userText
      f0 == [Idle EXCEPT !.analyzingUser = analyzingUser,
                         !.primaryText = primaryText,
                         !.contextText = contextText]
      c == buildCall(f0, primaryText)
  IN  IF earlyReturn(primaryText) # "none"
      THEN /\ last' = [kind |-> earlyReturn(primaryText)]
           /\ UNCHANGED <<running, frames>>
      ELSE /\ running' = TRUE
           /\ frames' = [frames EXCEPT ![r] =
                [f0 EXCEPT !.pc = "baseline",
                           !.startMethod = selectedMethod,
                           !.phrases = tokenizePhrases(primaryText),
                           !.calls = 1,
                           !.call = callLLM(c.userMsg, c.systemMsg, BaselineMaxTokens)]]
           /\ last' = NoEvent

\* the lowest free slot
FreeSlot(r) ==
  /\ frames[r].pc = "idle"
  /\ \A q \in RunIds : q < r => frames[q].pc # "idle"

\* a click on #runBtn, which setRunning disables
ClickRun(r) ==
  /\ ~MicrotaskPending
  /\ ~running
  /\ FreeSlot(r)
  /\ runAnalysis(r)
  /\ UNCHANGED <<selectedMethod, selectedProvider, analysisTarget, storage,
                 promptText, systemText, pure>>

\* the keydown listener: Ctrl/Cmd+Enter
KeydownCtrlEnter(r) ==
  /\ ~MicrotaskPending
  /\ FreeSlot(r)
  /\ runAnalysis(r)
  /\ UNCHANGED <<selectedMethod, selectedProvider, analysisTarget, storage,
                 promptText, systemText, pure>>

\* the head of the for loop of a saliency function: the next request of the
\* frame, or the return of the scores, normalise, the render and finally
LoopHead(r, f, ev) ==
  IF loopContinues(f)
  THEN /\ frames' = [frames EXCEPT ![r] =
            IF needsRewrite(f)
            THEN [f EXCEPT !.pc = "side", !.neutral = DefaultNeutral,
                           !.side = "none", !.calls = f.calls + 1,
                           !.call = rewriteCall(f)]
            ELSE [f EXCEPT !.pc = "probe", !.calls = f.calls + 1,
                           !.call = perturbedCall(f, probeText(f))]]
       /\ last' = ev
       /\ UNCHANGED running
  ELSE /\ frames' = [frames EXCEPT ![r] = Idle]
       /\ last' = [kind |-> "end", run |-> r, frame |-> f,
                   phrases |-> f.phrases, normScores |-> normalised(f.scores)]
       /\ running' = FALSE

\* the awaiter of the frame's callLLM promise runs with its outcome
Resume(r, ok, content) ==
  LET f == frames[r]
  IN  IF fatal(f, ok)
      THEN /\ frames' = [frames EXCEPT ![r] = Idle]
           /\ last' = [kind |-> "error", run |-> r, frame |-> f]
           /\ running' = FALSE
      ELSE CASE f.pc = "baseline" ->
                  LoopHead(r, [f EXCEPT !.baseline = content,
                                        !.baselineOk = ok,
                                        !.method = selectedMethod,
                                        !.startMethod = Idle.startMethod],
                           [kind |-> "dispatch", run |-> r,
                            started |-> f.startMethod, method |-> selectedMethod])
             [] f.pc = "side" ->
                  LET g == [f EXCEPT !.neutral = neutralOf(f, ok, content),
                                     !.side = IF ~ok THEN "fail"
                                              ELSE IF content = <<>> THEN "empty"
                                              ELSE "text"]
                  IN  /\ frames' = [frames EXCEPT ![r] =
                           [g EXCEPT !.pc = "probe", !.calls = g.calls + 1,
                                     !.call = perturbedCall(g, probeText(g))]]
                      /\ last' = NoEvent
                      /\ UNCHANGED running
             [] OTHER ->
                  LoopHead(r, [f EXCEPT
                    !.scores = push(f.scores, scoreOf(f, ok, content)),
                    !.outcomes = Append(f.outcomes, [idx |-> f.i, side |-> f.side,
                                                    ok |-> ok, out |-> content]),
                    !.ticks = Append(f.ticks, onTick(f)),
                    !.i = f.i + 1],
                    NoEvent)

\* the provider answers the request in flight with a content
CallResolves(r) ==
  /\ ~MicrotaskPending
  /\ frames[r].pc # "idle"
  /\ frames[r].call.sent
  /\ \E content \in (CASE frames[r].pc = "side" -> Rewrites
                        [] frames[r].pc = "baseline" -> Baselines
                        [] OTHER -> Outputs) :
       Resume(r, TRUE, content)
  /\ UNCHANGED <<selectedMethod, selectedProvider, analysisTarget, storage,
                 promptText, systemText, pure>>

\* the request in flight fails: network error, HTTP error status
CallFails(r) ==
  /\ ~MicrotaskPending
  /\ frames[r].pc # "idle"
  /\ frames[r].call.sent
  /\ Resume(r, FALSE, <<>>)
  /\ UNCHANGED <<selectedMethod, selectedProvider, analysisTarget, storage,
                 promptText, systemText, pure>>

\* callLLM threw for want of a key: the awaiter runs with the rejection
CallThrows(r) ==
  /\ frames[r].pc # "idle"
  /\ ~frames[r].call.sent
  /\ Resume(r, FALSE, <<>>)
  /\ UNCHANGED <<selectedMethod, selectedProvider, analysisTarget, storage,
                 promptText, systemText, pure>>

Next ==
  \/ \E m \in Methods : selectMethod(m)
  \/ \E t \in Targets : selectTarget(t)
  \/ \E p \in Providers : selectProviderTab(p)
  \/ \E input \in KeyInputs : saveKey(input)
  \/ clearKey
  \/ \E r \in RunIds : ClickRun(r)
  \/ \E r \in RunIds : KeydownCtrlEnter(r)
  \/ \E r \in RunIds : CallResolves(r)
  \/ \E r \in RunIds : CallFails(r)
  \/ \E r \in RunIds : CallThrows(r)

\* The page: up to MaxRuns invocations of runAnalysis may be suspended at
\* once (Ctrl/Cmd+Enter does not look at the Run button).
Spec == InitOverlap /\ [][Next]_vars

\* The page when Ctrl/Cmd+Enter is not pressed while an invocation is
\* suspended: one frame.  The frames of overlapping invocations share no
\* local, so what one invocation does under Spec it does here.
NextSolo ==
  \/ \E m \in Methods : selectMethod(m)
  \/ \E t \in Targets : selectTarget(t)
  \/ \E p \in Providers : selectProviderTab(p)
  \/ \E input \in KeyInputs : saveKey(input)
  \/ clearKey
  \/ ClickRun(1)
  \/ KeydownCtrlEnter(1)
  \/ CallResolves(1)
  \/ CallFails(1)
  \/ CallThrows(1)

SpecSolo == Init /\ [][NextSolo]_vars

\* Every request is answered or fails, and every rejection is consumed.
FairSolo ==
  SpecSolo /\ WF_vars(CallResolves(1) \/ CallFails(1)) /\ WF_vars(CallThrows(1))

\* ------------------------------------------------------------------------
\* tokenizePhrases applied to texts
\* ------------------------------------------------------------------------

\* a text is at most MaxPieces pieces
MaxPieces == 4

\* a word long enough to be a chunk of its own
LongWord == [k \in 1..ChunkMin |-> "w"]

TokPieces == { <<"a">>, <<".">>, <<" ">>, <<",">>, <<"\n">>, LongWord }

RECURSIVE TokTexts(_)
TokTexts(n) ==
  IF n = 0 THEN { <<>> }
  ELSE LET shorter == TokTexts(n - 1)
       IN  shorter \cup {t \o q : t \in shorter, q \in TokPieces}

\* "Be concise. Always answer in JSON. Never explain your reasoning."
ExampleText ==
  <<"B", "e", " ", "c", "o", "n", "c", "i", "s", "e", ".", " ", "A", "l",
    "w", "a", "y", "s", " ", "a", "n", "s", "w", "e", "r", " ", "i", "n",
    " ", "J", "S", "O", "N", ".", " ", "N", "e", "v", "e", "r", " ", "e",
    "x", "p", "l", "a", "i", "n", " ", "y", "o", "u", "r", " ", "r", "e",
    "a", "s", "o", "n", "i", "n", "g", ".">>

\* the texts tokenizePhrases is applied to
TokInputs == TokTexts(MaxPieces) \cup {ExampleText}

InitTok == InitWith({<<>>})

Tokenize ==
  /\ pure = NoPure
  /\ \E text \in TokInputs :
       pure' = [op |-> "tokenizePhrases", text |-> text,
                phrases |-> tokenizePhrases(text)]
  /\ UNCHANGED page

NextTok == Tokenize

SpecTok == InitTok /\ [][NextTok]_vars

\* ------------------------------------------------------------------------
\* normalise applied to score arrays
\* ------------------------------------------------------------------------

\* a score array has at most MaxScores entries
MaxScores == 3

\* scores a saliency function pushes: 0 for a failed probe, 1 for an output
\* sharing no trigram with the baseline, and 1 - cosineSim of outputs that
\* are the baseline, near it, or the baseline with three distinct trigrams
NormScores ==
  { Zero, One,
    divergence(<<"a", "b", "c", "d">>, <<"a", "b", "c", "d">>),
    divergence(<<"a", "b", "c", "d">>, <<"a", "b", "c", "x">>),
    divergence(<<"a", "a", "b", "b", "a">>, <<"a", "a", "b", "b", "a">>) }

NormArrays == UNION {[1..n -> NormScores] : n \in 1..MaxScores}

InitNorm == InitWith({<<>>})

Normalise ==
  /\ pure = NoPure
  /\ \E scores \in NormArrays :
       pure' = [op |-> "normalise", scores |-> scores, out |-> normalise(scores)]
  /\ UNCHANGED page

NextNorm == Normalise

SpecNorm == InitNorm /\ [][NextNorm]_vars

\* ------------------------------------------------------------------------
\* cosineSim applied to pairs of texts
\* ------------------------------------------------------------------------

SimChars == {"a", "b"}

\* the texts of at most MaxSimLen characters
SimTexts == UNION {[1..n -> SimChars] : n \in 0..MaxSimLen}

InitSim == InitWith({<<>>})

Similarity ==
  /\ pure = NoPure
  /\ \E a \in SimTexts, b \in SimTexts :
       pure' = [op |-> "cosineSim", a |-> a, b |-> b, sim |-> cosineSim(a, b)]
  /\ UNCHANGED page

NextSim == Similarity

SpecSim == InitSim /\ [][NextSim]_vars

\* ------------------------------------------------------------------------
\* Properties of a run
\* ------------------------------------------------------------------------

\* the invocation that the last step ended by returning its scores
Ended == last.kind = "end"

\* the invocation in slot 1 is past its baseline and has not ended
InLoop == frames[1].pc \in {"side", "probe"}

\* C1: a run over N phrases whose baseline call succeeded and that ran to its
\* end has made N+1 callLLM invocations under perturbation and omission and
\* 2N+1 under paraphrase, the failed invocations counted, whichever of the
\* calls for the phrases failed.
C1_CallCount ==
  Ended =>
    /\ last.frame.baselineOk
    /\ last.frame.calls =
         IF last.frame.method = "paraphrase"
         THEN 2 * Len(last.phrases) + 1
         ELSE Len(last.phrases) + 1

C1_Witness ==
  /\ Ended
  /\ last.frame.method = "paraphrase"
  /\ Len(last.phrases) >= 2
  /\ last.frame.side = "fail"
  /\ \E k \in 1..Len(last.phrases) : ~last.frame.outcomes[k].ok
  /\ last.frame.calls = 2 * Len(last.phrases) + 1

\* C2: a run that ends returns N raw scores; the score of a phrase whose
\* probe failed is 0 and the score of every other phrase is the divergence
\* of that phrase's own probe output from the baseline.
C2_FailedProbeScoresZero ==
  Ended =>
    /\ Len(last.frame.scores) = Len(last.phrases)
    /\ Len(last.frame.outcomes) = Len(last.phrases)
    /\ \A k \in 1..Len(last.phrases) :
         last.frame.scores[k] =
           IF last.frame.outcomes[k].ok
           THEN divergence(last.frame.baseline, last.frame.outcomes[k].out)
           ELSE Zero

C2_Witness ==
  /\ Ended
  /\ Len(last.phrases) >= 2
  /\ \E k \in 1..Len(last.phrases) :
       /\ ~last.frame.outcomes[k].ok
       /\ last.frame.scores[k] = Zero
       /\ \A j \in 1..Len(last.phrases) : j # k =>
            /\ last.frame.outcomes[j].ok
            /\ last.frame.scores[j] # Zero

\* C3: a run whose baseline call fails ends with the error shown and with
\* that one call: no probe and no rewrite request was issued, no score was
\* computed, no progress was reported, and normalise and the render, which
\* only the end of the loop reaches, are not run.  Every request after the
\* baseline belongs to a run whose baseline succeeded.
C3_BaselineFailureAborts ==
  /\ last.kind = "error" =>
       /\ last.frame.pc = "baseline"
       /\ ~last.frame.baselineOk
       /\ last.frame.calls = 1
       /\ last.frame.scores = <<>>
       /\ last.frame.ticks = <<>>
       /\ frames[last.run] = Idle
  /\ Ended => last.frame.baselineOk
  /\ \A r \in RunIds : frames[r].pc \in {"side", "probe"} => frames[r].baselineOk

C3_Witness ==
  /\ last.kind = "error"
  /\ last.frame.call.sent
  /\ last.frame.pc = "baseline"
  /\ Len(last.frame.phrases) >= 2

\* C4: joining the phrases tokenizePhrases returns for a text gives the text
\* back, character for character.
C4_RoundTrip ==
  pure.op = "tokenizePhrases" => join(pure.phrases) = pure.text

\* the scores of the invocation of slot 1 after a step
ScoresAfter ==
  IF frames'[1].pc # "idle" THEN frames'[1].scores
  ELSE IF last'.kind = "end" THEN last'.frame.scores ELSE <<>>

\* the texts of a call are those of the probe for the frame's phrase i
IsProbeOfPhrase(f) ==
  LET c == buildCall(f, probeText(f))
  IN  /\ f.call.userMsg = c.userMsg
      /\ f.call.systemMsg = c.systemMsg
      /\ f.call.maxTokens = ProbeMaxTokens

C5_State ==
  /\ InLoop =>
       /\ frames[1].i < Len(frames[1].phrases)
       /\ Len(frames[1].scores) = frames[1].i
       /\ frames[1].pc = "probe" => IsProbeOfPhrase(frames[1])
  /\ Ended =>
       /\ Len(last.frame.scores) = Len(last.phrases)
       /\ \A k \in 1..Len(last.phrases) :
            /\ last.frame.outcomes[k].idx = k - 1
            /\ last.frame.scores[k] =
                 IF last.frame.outcomes[k].ok
                 THEN divergence(last.frame.baseline, last.frame.outcomes[k].out)
                 ELSE Zero

C5_Step ==
  InLoop =>
    /\ Len(ScoresAfter) \in {Len(frames[1].scores), Len(frames[1].scores) + 1}
    /\ SubSeq(ScoresAfter, 1, Len(frames[1].scores)) = frames[1].scores
    /\ frames'[1].pc # "idle" => frames'[1].i \in {frames[1].i, frames[1].i + 1}

\* C5: the probe in flight is the probe of phrase i when i scores are held,
\* i goes up by one from probe to probe, a step only appends to the scores,
\* and at its end the run holds N scores, the k-th being the score of the
\* k-th phrase's probe.
C5_AscendingAppendOnly == []C5_State /\ [][C5_Step]_vars

C5_Witness ==
  /\ Ended
  /\ Len(last.phrases) >= 2
  /\ last.frame.outcomes[1].ok
  /\ ~last.frame.outcomes[2].ok
  /\ last.frame.scores[1] # last.frame.scores[2]

\* the invocations with a request in flight
InFlight == {r \in RunIds : frames[r].pc # "idle" /\ frames[r].call.sent}

\* C6: at most one request is in flight at any moment.
C6_OneCallInFlight == Cardinality(InFlight) <= 1

\* the run delivers its N phrases and N normalised scores to the render
Delivered ==
  /\ Ended
  /\ last.phrases = tokenizePhrases(last.frame.primaryText)
  /\ Len(last.normScores) = Len(last.phrases)

\* C7: when every request is answered or fails, a run past its baseline
\* ends by delivering N normalised scores with the N phrases, and the
\* error display is only ever reached from the baseline call.
C7_CompletesAfterBaseline ==
  /\ InLoop ~> Delivered
  /\ [](last.kind = "error" => last.frame.pc = "baseline")

C7_Witness ==
  /\ Delivered
  /\ Len(last.phrases) >= 2
  /\ \A k \in 1..Len(last.phrases) : ~last.frame.outcomes[k].ok

\* a step that retires the invocation of slot 1 without the delivery of
\* its scores
AbortStep ==
  /\ NextSolo
  /\ frames'[1].pc = "idle"
  /\ last'.kind # "end"

\* C8 as stated: a run with a phrase still to come after the one in hand can
\* be aborted at the boundary between the two: a step is possible that
\* retires it with no further request and without delivering its scores.
C8_AbortPossible ==
  (InLoop /\ frames[1].i + 1 < Len(frames[1].phrases)) => ENABLED AbortStep

C8_Step ==
  InLoop =>
    \/ frames'[1] = frames[1]
    \/ /\ frames'[1].pc \in {"side", "probe"}
       /\ frames'[1].calls = frames[1].calls + 1
       /\ frames'[1].call # NoCall
    \/ /\ frames'[1].pc = "idle"
       /\ last'.kind = "end"
       /\ Len(last'.frame.scores) = Len(last'.phrases)
       /\ Len(last'.normScores) = Len(last'.phrases)

\* C8 amended: no step aborts a run past its baseline: every step that
\* changes the run issues its next request or, after the last phrase,
\* delivers all N scores.
C8_NoAbort == [][C8_Step]_vars

C8_Witness ==
  /\ InLoop
  /\ Len(frames[1].scores) >= 1
  /\ getKey = <<>>
  /\ selectedMethod # frames[1].method
  /\ analysisTarget = "system"

\* C9 as stated: in a Paraphrase run the score of a phrase whose rewrite
\* request failed is 0, whatever its probe returned.
C9_SideFailureScoresZero ==
  (Ended /\ last.frame.method = "paraphrase") =>
    \A k \in 1..Len(last.phrases) :
      last.frame.outcomes[k].side = "fail" => last.frame.scores[k] = Zero

\* C9 amended: in a Paraphrase run a failed rewrite request leaves the
\* default neutral text in the probe, the probe is sent, the score of the
\* phrase is 0 only if that probe fails and the divergence of its output
\* otherwise, and the run goes on to the end.
C9_SideFailureFallsBack ==
  /\ \A r \in RunIds :
       (frames[r].pc = "probe" /\ frames[r].method = "paraphrase"
          /\ frames[r].side = "fail") =>
         /\ frames[r].neutral = DefaultNeutral
         /\ IsProbeOfPhrase(frames[r])
  /\ (Ended /\ last.frame.method = "paraphrase") =>
       /\ Len(last.frame.scores) = Len(last.phrases)
       /\ \A k \in 1..Len(last.phrases) :
            last.frame.outcomes[k].side = "fail" =>
              last.frame.scores[k] =
                IF last.frame.outcomes[k].ok
                THEN divergence(last.frame.baseline, last.frame.outcomes[k].out)
                ELSE Zero

C9_Witness ==
  /\ Ended
  /\ last.frame.method = "paraphrase"
  /\ Len(last.phrases) >= 2
  /\ last.frame.outcomes[1].side = "fail"
  /\ last.frame.outcomes[1].ok
  /\ last.frame.scores[1] # Zero

\* C10: in a Paraphrase run, after a rewrite request that failed or returned
\* the empty string, the probe in flight carries the phrases with phrase i
\* replaced by "[something]".
C10_EmptyRewriteFallsBack ==
  \A r \in RunIds :
    (frames[r].pc = "probe" /\ frames[r].method = "paraphrase"
       /\ frames[r].side \in {"fail", "empty"}) =>
      LET c == buildCall(frames[r],
                 replacePhrase(frames[r].phrases, frames[r].i, DefaultNeutral))
      IN  /\ frames[r].call.userMsg = c.userMsg
          /\ frames[r].call.systemMsg = c.systemMsg

\* C11: the saliency function an invocation of runAnalysis dispatches to is
\* the one of the method that was selected when the invocation began, also
\* when selectMethod ran while the baseline request was in flight.
C11_MethodFixedAtStart ==
  last.kind = "dispatch" => last.method = last.started

\* the text an invocation analyses in the request it has in flight
AnalyzedText(f) == IF f.pc = "baseline" THEN f.primaryText ELSE probeText(f)

C12_State ==
  \A r \in RunIds :
    LET f == frames[r]
    IN  f.pc \in {"baseline", "probe"} =>
          IF f.analyzingUser
          THEN f.call.userMsg = AnalyzedText(f) /\ f.call.systemMsg = f.contextText
          ELSE f.call.systemMsg = AnalyzedText(f) /\ f.call.userMsg = f.contextText

C12_Step ==
  \A r \in RunIds :
    /\ (frames[r].pc = "idle" /\ frames'[r].pc # "idle") =>
          /\ frames'[r].analyzingUser = (analysisTarget = "user")
          /\ frames'[r].contextText =
               IF analysisTarget = "user" THEN trim(systemText) ELSE trim(promptText)
          /\ frames'[r].primaryText =
               IF analysisTarget = "user" THEN trim(promptText) ELSE trim(systemText)
    /\ (frames[r].pc # "idle" /\ frames'[r].pc # "idle") =>
          /\ frames'[r].analyzingUser = frames[r].analyzingUser
          /\ frames'[r].contextText = frames[r].contextText
          /\ frames'[r].primaryText = frames[r].primaryText

\* C12: in the baseline call and in every probe of an invocation the analysed
\* text is in the role of the target that was selected when the invocation
\* began and the other role carries the context text read then; both stay
\* what they were for the whole invocation, whatever selectTarget does
\* meanwhile.
C12_RolesFixedAtStart == []C12_State /\ [][C12_Step]_vars

\* a later probe of an invocation is in flight after selectTarget changed the
\* target
C12_Witness ==
  /\ frames[1].pc = "probe"
  /\ frames[1].call.sent
  /\ frames[1].i >= 1
  /\ frames[1].analyzingUser
  /\ analysisTarget = "system"
  /\ frames[1].call.userMsg = probeText(frames[1])

\* x <= y
leD(x, y) == ~ltD(y, x)

\* normalise was applied to scores that are not all equal
NonDegenerate ==
  /\ pure.op = "normalise"
  /\ \E i, j \in 1..Len(pure.scores) : pure.scores[i] # pure.scores[j]

\* C13: normalise maps scores that are not all equal to an array of the same
\* length whose entries lie in [0, 1], 0 at the least score and 1 at the
\* greatest, entry k being (scores[k] - min) / (max - min).
C13_NormaliseRange ==
  NonDegenerate =>
    LET n   == Len(pure.scores)
        lo  == CHOOSE m \in {pure.scores[k] : k \in 1..n} :
                 \A k \in 1..n : leD(m, pure.scores[k])
        hi  == CHOOSE m \in {pure.scores[k] : k \in 1..n} :
                 \A k \in 1..n : leD(pure.scores[k], m)
    IN  /\ Len(pure.out) = n
        /\ \A k \in 1..n : leD(Zero, pure.out[k]) /\ leD(pure.out[k], One)
        /\ \A k \in 1..n : pure.scores[k] = lo => pure.out[k] = Zero
        /\ \A k \in 1..n : pure.scores[k] = hi => pure.out[k] = One
        /\ \E k \in 1..n : pure.out[k] = Zero
        /\ \E k \in 1..n : pure.out[k] = One
        /\ \A k \in 1..n :
             pure.out[k] = fdiv(subD(pure.scores[k], lo), subD(hi, lo))

\* three different scores, one of them below 0, and an entry strictly
\* between 0 and 1
C13_Witness ==
  /\ NonDegenerate
  /\ Len(pure.scores) = 3
  /\ \E k \in 1..3 : ltD(pure.scores[k], Zero)
  /\ \E k \in 1..3 : ltD(Zero, pure.out[k]) /\ ltD(pure.out[k], One)

\* C14: normalise maps a non-empty array of equal scores, an array of one
\* score included, to an array of the same length whose entries are all 0.5.
C14_NormaliseDegenerate ==
  (/\ pure.op = "normalise"
   /\ \A i, j \in 1..Len(pure.scores) : pure.scores[i] = pure.scores[j]) =>
     /\ Len(pure.out) = Len(pure.scores)
     /\ \A k \in 1..Len(pure.out) : pure.out[k] = Half

\* several equal scores that are not 0
C14_Witness ==
  /\ pure.op = "normalise"
  /\ Len(pure.scores) = MaxScores
  /\ \A k \in 1..MaxScores : pure.scores[k] = pure.scores[1]
  /\ pure.scores[1] # Zero
  /\ pure.out = [k \in 1..MaxScores |-> Half]

\* C15: cosineSim is symmetric: cosineSim(a, b) is cosineSim(b, a) for all
\* texts a and b.
C15_Symmetric ==
  pure.op = "cosineSim" => pure.sim = cosineSim(pure.b, pure.a)

\* two different texts that share some trigrams but not all, with different
\* norms
C15_Witness ==
  /\ pure.op = "cosineSim"
  /\ pure.a # pure.b
  /\ Cardinality(ngrams(pure.a)) # Cardinality(ngrams(pure.b))
  /\ ltD(Zero, pure.sim)
  /\ ltD(pure.sim, One)

\* C16: cosineSim(a, a) is 1 for every text a of at least 3 characters and 0
\* for every text a of fewer than 3 characters.
C16_SelfSimilarity ==
  (pure.op = "cosineSim" /\ pure.a = pure.b) =>
    pure.sim = IF Len(pure.a) >= NgramLen THEN One ELSE Zero

\* C17: cosineSim(a, b) lies in [0, 1] for all texts a and b and is 0 when
\* one of them has fewer than 3 characters, so the score 1 - cosineSim(a, b)
\* lies in [0, 1] too.
C17_SimilarityRange ==
  pure.op = "cosineSim" =>
    /\ leD(Zero, pure.sim) /\ leD(pure.sim, One)
    /\ (Len(pure.a) < NgramLen \/ Len(pure.b) < NgramLen) => pure.sim = Zero
    /\ leD(Zero, subD(One, pure.sim)) /\ leD(subD(One, pure.sim), One)

\* C18: tokenizePhrases returns at least one phrase for every text, and every
\* phrase it returns is non-empty after trimming, unless the result is the
\* text itself as the only phrase and the text is empty or blank.
C18_PhrasesNonEmpty ==
  pure.op = "tokenizePhrases" =>
    /\ Len(pure.phrases) >= 1
    /\ \/ \A k \in 1..Len(pure.phrases) : trim(pure.phrases[k]) # <<>>
       \/ pure.phrases = <<pure.text>> /\ trim(pure.text) = <<>>

\* a sentence longer than SentenceLimit whose blank last part was dropped
C18_Witness ==
  /\ pure.op = "tokenizePhrases"
  /\ Len(pure.text) > SentenceLimit
  /\ Len(join(pure.phrases)) < Len(pure.text)
  /\ \A k \in 1..Len(pure.phrases) : trim(pure.phrases[k]) # <<>>

\* the progress events of an invocation so far: as many as scores, the k-th
\* reporting (k, N)
TicksOf(f) ==
  /\ Len(f.ticks) = Len(f.scores)
  /\ \A k \in 1..Len(f.ticks) : f.ticks[k] = <<k, Len(f.phrases)>>

C19_State ==
  /\ frames[1].pc # "idle" => TicksOf(frames[1])
  /\ Ended => TicksOf(last.frame) /\ Len(last.frame.ticks) = Len(last.phrases)

\* the settlement of a probe, succeeded or failed, records one score and
\* emits one event after it; no other step emits an event
C19_Step ==
  LET f == frames[1]
      g == IF last'.kind = "end" THEN last'.frame ELSE frames'[1]
  IN  (f.pc # "idle" /\ frames'[1] # f /\ last'.kind # "error") =>
        IF f.pc = "probe"
        THEN /\ Len(g.scores) = Len(f.scores) + 1
             /\ g.ticks = Append(f.ticks, <<Len(f.scores) + 1, Len(f.phrases)>>)
        ELSE g.ticks = f.ticks /\ g.scores = f.scores

\* C19: an invocation over N phrases emits one progress event after the step
\* of each phrase, whether the probe succeeded or failed; the i-th event
\* reports (i, N) and comes with the i-th score recorded, so the invocation
\* ends with the N events (1, N) .. (N, N).
C19_OneTickPerPhrase == []C19_State /\ [][C19_Step]_vars

\* an invocation over two phrases ended after one failed and one successful
\* probe
C19_Witness ==
  /\ Ended
  /\ last.frame.ticks = << <<1, 2>>, <<2, 2>> >>
  /\ ~last.frame.outcomes[1].ok
  /\ last.frame.outcomes[2].ok

\* C20: normalise is applied only to the complete scores of an invocation:
\* whenever normalised scores are rendered they are normalise of exactly one
\* score for each of the N phrases, in the order of the phrases, and a step
\* that ends an invocation in another way renders no scores.
C20_NormaliseComplete ==
  /\ Ended =>
       /\ last.phrases = last.frame.phrases
       /\ Len(last.frame.scores) = Len(last.phrases)
       /\ Len(last.frame.outcomes) = Len(last.phrases)
       /\ \A k \in 1..Len(last.phrases) : last.frame.outcomes[k].idx = k - 1
       /\ last.normScores = normalise(last.frame.scores)
       /\ Len(last.normScores) = Len(last.phrases)
  /\ ~Ended => "normScores" \notin DOMAIN last

\* the scores of MaxPhrases phrases were normalised to different values
C20_Witness ==
  /\ Ended
  /\ Len(last.frame.scores) = MaxPhrases
  /\ Len(last.normScores) = MaxPhrases
  /\ last.normScores[1] # last.normScores[MaxPhrases]

\* the analysed text carried by the request the invocation has in flight
SentText(f) == IF f.analyzingUser THEN f.call.userMsg ELSE f.call.systemMsg

\* text with the characters from position p to p + n - 1 replaced by repl
spliced(text, p, n, repl) ==
  SubSeq(text, 1, p - 1) \o repl \o SubSeq(text, p + n, Len(text))

\* C21: the variant prompt of probe i of a Perturbation run is the primary
\* text of the baseline call with the characters of phrase i replaced by the
\* placeholder "[...]", every other character of it present, unchanged and
\* in order.
C21_VariantKeepsTheRest ==
  \A r \in RunIds :
    LET f == frames[r]
    IN  (f.pc = "probe" /\ f.method = "perturbation") =>
          \E p \in 1..(Len(f.primaryText) + 1) :
             LET n == Len(f.phrases[f.i + 1])
             IN  /\ p + n - 1 <= Len(f.primaryText)
                 /\ SubSeq(f.primaryText, p, p + n - 1) = f.phrases[f.i + 1]
                 /\ SentText(f) = spliced(f.primaryText, p, n, Placeholder)

\* the phrases before and after phrase i (0-based), concatenated in order
Others(f) ==
  join(SubSeq(f.phrases, 1, f.i) \o SubSeq(f.phrases, f.i + 2, Len(f.phrases)))

\* C22: the variant prompt of probe i of an Omission run is the in-order
\* concatenation of all phrases except phrase i, or a single space when that
\* concatenation is empty; it is never the empty string.
C22_OmissionVariant ==
  \A r \in RunIds :
    LET f == frames[r]
    IN  (f.pc = "probe" /\ f.method = "omission") =>
          /\ SentText(f) = IF Others(f) = <<>> THEN <<" ">> ELSE Others(f)
          /\ SentText(f) # <<>>

\* the probe of the only phrase of an Omission run is in flight and carries a
\* single space
C22_Witness ==
  /\ frames[1].pc = "probe"
  /\ frames[1].method = "omission"
  /\ frames[1].call.sent
  /\ Len(frames[1].phrases) = 1
  /\ SentText(frames[1]) = <<" ">>

\* tokenizePhrases was applied to a text without sentence terminators
NoTerminators ==
  /\ pure.op = "tokenizePhrases"
  /\ \A k \in 1..Len(pure.text) : ~IsTerm(pure.text[k])

\* C23: for a text that contains none of the terminators . ! ? and newline,
\* tokenizePhrases returns exactly one phrase, the whole text, whatever the
\* length of the text and whatever commas or semicolons it contains.
C23_OnePhrase == NoTerminators => pure.phrases = <<pure.text>>

\* C23, amended: for a text without terminators that is at most 60
\* characters long, whatever commas or semicolons it contains, or that
\* contains no comma or semicolon, whatever its length, tokenizePhrases
\* returns exactly one phrase, the whole text.
C23_OnePhraseUnlessSubSplit ==
  (/\ NoTerminators
   /\ \/ Len(pure.text) <= SentenceLimit
      \/ \A k \in 1..Len(pure.text) : ~IsCut(pure.text[k]))
  => pure.phrases = <<pure.text>>

\* a text without terminators of at least ChunkMin and at most 60 characters
\* with a comma inside came back as one phrase
C23_Witness ==
  /\ NoTerminators
  /\ Len(pure.text) > ChunkMin
  /\ Len(pure.text) <= SentenceLimit
  /\ \E k \in 1..(Len(pure.text) - 1) : IsCut(pure.text[k])
  /\ pure.phrases = <<pure.text>>

\* the positions where a candidate sentence starts: a non-terminator at the
\* start of the text or right after a terminator
CandStarts(text) ==
  {p \in 1..Len(text) : ~IsTerm(text[p]) /\ (p = 1 \/ IsTerm(text[p - 1]))}

\* the candidate sentence that starts at p: the run of non-terminators and the
\* terminators that follow it, up to the next start
CandAt(text, p) ==
  LET later == {q \in CandStarts(text) : q > p}
  IN  SubSeq(text, p, IF later = {} THEN Len(text) ELSE minOf(later) - 1)

\* the candidate sentences of the text in order
Cands(text) ==
  [j \in 1..Cardinality(CandStarts(text)) |->
     CandAt(text, CHOOSE p \in CandStarts(text) :
                    Cardinality({q \in CandStarts(text) : q <= p}) = j)]

\* a candidate of at most 60 characters that is not blank
ShortCand(c) == Len(c) <= SentenceLimit /\ trim(c) # <<>>

\* C24: a candidate sentence of at most 60 characters that is not blank is
\* returned as one phrase, never sub-split at commas or semicolons; a text
\* made of k such sentences yields exactly these k phrases, and the example
\* "Be concise. Always answer in JSON. Never explain your reasoning." yields
\* three.
C24_ShortSentenceOnePhrase ==
  pure.op = "tokenizePhrases" =>
    LET cs == Cands(pure.text)
    IN  /\ \A j \in 1..Len(cs) :
              ShortCand(cs[j]) => \E m \in 1..Len(pure.phrases) : pure.phrases[m] = cs[j]
        /\ (/\ Len(cs) >= 1
            /\ join(cs) = pure.text
            /\ \A j \in 1..Len(cs) : ShortCand(cs[j])) => pure.phrases = cs
        /\ pure.text = ExampleText => Len(pure.phrases) = 3

\* a text of two short sentences, the first one with a comma after more than
\* ChunkMin characters, came back as its two sentences
C24_Witness ==
  /\ pure.op = "tokenizePhrases"
  /\ Len(Cands(pure.text)) = 2
  /\ join(Cands(pure.text)) = pure.text
  /\ \A j \in 1..2 : ShortCand(Cands(pure.text)[j])
  /\ \E k \in (ChunkMin + 1)..(Len(pure.phrases[1]) - 1) : IsCut(pure.phrases[1][k])
  /\ pure.phrases = Cands(pure.text)

\* tokenizePhrases was applied to a text whose only candidate sentence is
\* longer than 60 characters
OneLongSentence ==
  /\ pure.op = "tokenizePhrases"
  /\ Len(Cands(pure.text)) = 1
  /\ Len(Cands(pure.text)[1]) > SentenceLimit

\* C25: of the chunks produced from a candidate sentence longer than 60
\* characters each one except the last has a trimmed length of at least 35
\* and ends right after a comma or semicolon; only the last chunk may be
\* shorter.
C25_ChunksOfLongSentence ==
  OneLongSentence =>
    \A m \in 1..(Len(pure.phrases) - 1) :
       /\ Len(trim(pure.phrases[m])) >= ChunkMin
       /\ IsCut(pure.phrases[m][Len(pure.phrases[m])])

\* a sentence longer than 60 characters came back as two chunks, the last one
\* shorter than 35 characters
C25_Witness ==
  /\ OneLongSentence
  /\ Len(pure.phrases) = 2
  /\ join(pure.phrases) = Cands(pure.text)[1]
  /\ Len(trim(pure.phrases[2])) < ChunkMin

\* the invocations of runAnalysis that are past their setRunning(true) and
\* have not ended
InProgress == {r \in RunIds : frames[r].pc # "idle"}

\* C26: at most one analysis run is in progress at any time; runAnalysis
\* invoked by the Run button or by Ctrl/Cmd+Enter while a run is in progress
\* starts no second run.
C26_OneRunInProgress == Cardinality(InProgress) <= 1

\* the first call of an invocation is made with the provider and the key
\* selected at that moment, and each later call of the invocation with the
\* provider and the key of the call before it
C27_Step ==
  \A r \in RunIds :
    /\ (frames[r].pc = "idle" /\ frames'[r].pc # "idle") =>
          /\ frames'[r].call.provider = selectedProvider
          /\ frames'[r].call.key = storage[selectedProvider]
    /\ (frames[r].pc # "idle" /\ frames'[r].pc # "idle") =>
          /\ frames'[r].call.provider = frames[r].call.provider
          /\ frames'[r].call.key = frames[r].call.key

\* C27: every Model Oracle call of a run is made with the provider and the
\* key that were selected when the run started, whatever selectProviderTab,
\* saveKey and clearKey do while the run is in progress.
C27_ProviderAndKeyFixedAtStart == [][C27_Step]_vars

\* the invocation that just ended had its baseline answered and every one of
\* its probes failed
AllProbesFailed ==
  /\ Ended
  /\ last.frame.baselineOk
  /\ \A k \in 1..Len(last.frame.outcomes) : ~last.frame.outcomes[k].ok

\* C28: a run whose baseline call succeeds and whose probe fails for every
\* phrase completes without an error: every raw score is 0 and every
\* normalised score handed to the render is 0.5.
C28_AllProbesFail ==
  /\ AllProbesFailed =>
        /\ Len(last.frame.outcomes) = Len(last.phrases)
        /\ last.frame.scores = [k \in 1..Len(last.phrases) |-> Zero]
        /\ last.normScores = [k \in 1..Len(last.phrases) |-> Half]
  /\ last.kind = "error" => last.frame.pc = "baseline"

\* a run of two phrases ended after both probes failed
C28_Witness ==
  /\ AllProbesFailed
  /\ Len(last.phrases) = 2
  /\ last.normScores = <<Half, Half>>

\* C29: the running flag (Run button disabled) is true in every state in
\* which an analysis run is in progress and false in every state in which no
\* run is in progress; it is reset to false when a run ends, by success or by
\* baseline failure.
C29_RunningFlag == running <=> (\E r \in RunIds : frames[r].pc # "idle")

\* the primary text an invocation of runAnalysis would read now
PrimaryNow == IF analysisTarget = "user" THEN trim(promptText) ELSE trim(systemText)

\* no invocation begins its run without a key or without a primary text; an
\* invocation that opens the key modal found no key, one that shows the
\* error found no primary text, and either leaves the invocations, their
\* calls and scores, and the running flag as they were
C30_Step ==
  /\ (\E r \in RunIds : frames[r].pc = "idle" /\ frames'[r].pc # "idle") =>
        storage[selectedProvider] # <<>> /\ PrimaryNow # <<>>
  /\ last'.kind = "nokey" =>
        storage[selectedProvider] = <<>> /\ frames' = frames /\ running' = running
  /\ last'.kind = "notext" =>
        PrimaryNow = <<>> /\ frames' = frames /\ running' = running

\* C30: runAnalysis invoked while the selected provider has no stored key, or
\* while the primary text is empty after trimming, issues no Model Oracle
\* call, does not set the running flag and produces no scores; without a key
\* it opens the key modal, and with a key but no text it shows an error.
C30_NoRunWithoutKeyOrText ==
  /\ [][C30_Step]_vars
  /\ [](\A r \in RunIds : frames[r].pc # "idle" => frames[r].primaryText # <<>>)

\* with a key stored and an empty #prompt the invocation showed the error and
\* started nothing
C30_Witness ==
  /\ last.kind = "notext"
  /\ storage[selectedProvider] # <<>>
  /\ trim(promptText) = <<>>
  /\ ~running
  /\ \A r \in RunIds : frames[r].pc = "idle"
====
